---- MODULE Spec2Model ----
(***************************************************************************)
(* c64u: a command-line client that turns one command invocation into at   *)
(* most one HTTP request to the C64 Ultimate REST API and reports the      *)
(* outcome.  The model covers the response envelope parser                 *)
(* (api.Client.parseResponse) and the memory commands of the machine       *)
(* command group together with the transport they use.                     *)
(*                                                                         *)
(* Text is modelled as a sequence of string tokens: a command-line         *)
(* argument is a sequence of one-character strings, an error string is a   *)
(* sequence of its pieces.                                                 *)
(***************************************************************************)
EXTENDS Integers, Sequences, FiniteSets, TLC

(***************************************************************************)
(* Bounds of the model                                                     *)
(***************************************************************************)
\* longest "errors" array the device sends
MaxErrs == 2
\* longest short hex argument given on the command line
MaxHexLen == 2
\* how many hex digits past the DMA limit the longest data argument goes
MaxOver == 2
\* longest run of characters handed to hexToBytes, a 0x prefix not counted
MaxCodecLen == 3
\* most bytes handed to FormatMemoryDump: two full rows and a third begun
MaxDumpLen == 33

\* "writes up to 128 bytes via DMA"
DmaLimitBytes == 128

(***************************************************************************)
(* JSON values, as encoding/json decodes them into interface{}             *)
(***************************************************************************)
JStr(s) == [t |-> "string", s |-> s]
JNum(n) == [t |-> "number", n |-> n]
JNull == [t |-> "null"]
JArr(items) == [t |-> "array", items |-> items]
JObj(fields) == [t |-> "object", fields |-> fields]

\* the empty map: make(map[string]interface{}), or a nil map
EmptyMap == [k \in {} |-> JNull]

\* strings the device puts into "errors"
DeviceStrings == {<<"bad address">>, <<"no such file">>}

\* entries of an "errors" array: strings and a non-string
ErrEntries == {JStr(s) : s \in DeviceStrings} \cup {JNum(7)}

ErrArrays == UNION {[1..n -> ErrEntries] : n \in 0..MaxErrs}

\* a field that the object does not have
Absent == [t |-> "absent"]

\* what the "errors" field of a response object can hold
ErrorsValues ==
    {JArr(a) : a \in ErrArrays}
        \cup {JStr(<<"oops">>), JNum(1), JObj(EmptyMap), JNull}

\* what another field of a response object can hold
OtherValues == {JStr(<<"0.1">>), JNum(42)}

MkFields(ev, av) ==
    [k \in (IF ev = Absent THEN {} ELSE {"errors"})
              \cup (IF av = Absent THEN {} ELSE {"version"})
        |-> IF k = "errors" THEN ev ELSE av]

JsonObjects ==
    {JObj(MkFields(ev, av)) : ev \in ErrorsValues \cup {Absent},
                              av \in OtherValues \cup {Absent}}

(***************************************************************************)
(* HTTP response bodies.  A body is either a run of bytes that is not      *)
(* JSON text (the empty body, the binary answer of readmem, an HTML error  *)
(* page) or the text of a JSON value.                                      *)
(***************************************************************************)
RawBody(bytes) == [kind |-> "raw", bytes |-> bytes]
JsonBody(v) == [kind |-> "json", v |-> v]

EmptyBody == RawBody(<<>>)

RawBodies == {EmptyBody, RawBody(<<65, 66>>), RawBody(<<0, 255, 60>>)}

JsonBodies ==
    {JsonBody(o) : o \in JsonObjects}
        \cup {JsonBody(JNull), JsonBody(JArr(<<>>)), JsonBody(JStr(<<"x">>))}

Bodies == RawBodies \cup JsonBodies

\* len(body)
BodyLen(body) == IF body.kind = "raw" THEN Len(body.bytes) ELSE 1

\* final status codes the transport hands to the caller
Statuses == {101, 200, 204, 299, 300, 400, 404, 500}

CodeText(code) == ToString(code)

\* the reason phrase of the status line
ReasonPhrase(code) ==
    CASE code = 101 -> "Switching Protocols"
      [] code = 200 -> "OK"
      [] code = 204 -> "No Content"
      [] code = 300 -> "Multiple Choices"
      [] code = 400 -> "Bad Request"
      [] code = 404 -> "Not Found"
      [] code = 500 -> "Internal Server Error"
      [] OTHER -> ""

\* resp.Status, e.g. "404 Not Found"
StatusLine(code) == <<CodeText(code), " ", ReasonPhrase(code)>>

\* fmt.Sprintf("HTTP %d: %s", resp.StatusCode, resp.Status)
HTTPStatusError(code) == <<"HTTP ", CodeText(code), ": ">> \o StatusLine(code)

(***************************************************************************)
(* api.Response and Client.parseResponse                                   *)
(***************************************************************************)
NoErr == "nil"
NoResponse == [nil |-> TRUE]

\* json.Unmarshal(body, &jsonData) with jsonData a map[string]interface{}
jsonUnmarshal(body) ==
    IF body.kind = "json" /\ body.v.t = "object"
    THEN [ok |-> TRUE, map |-> body.v.fields]
    ELSE IF body.kind = "json" /\ body.v.t = "null"
    THEN [ok |-> TRUE, map |-> EmptyMap]
    ELSE [ok |-> FALSE, map |-> EmptyMap]

\* the loop stopping one entry short of the end of the array
RECURSIVE StringEntriesDropLast(_)
StringEntriesDropLast(items) ==
    IF items = <<>> THEN <<>>
    ELSE IF Head(items).t = "string" /\ Len(items) > 1
    THEN <<Head(items).s>> \o StringEntriesDropLast(Tail(items))
    ELSE StringEntriesDropLast(Tail(items))

\* the loop over the errors array: appends the string entries, skips the others
RECURSIVE StringEntries(_)
StringEntries(items) ==
    IF items = <<>> THEN <<>>
    ELSE IF Head(items).t = "string"
    THEN <<Head(items).s>> \o StringEntries(Tail(items))
    ELSE StringEntries(Tail(items))

\* delete(jsonData, "errors")
MapDelete(m, key) == [k \in DOMAIN m \ {key} |-> m[k]]

\* a Response built without the body
NewResponseNoBody(status, body) ==
    [StatusCode |-> status, RawBody |-> EmptyBody, Data |-> EmptyMap, Errors |-> <<>>]

\* apiResp := &Response{StatusCode, RawBody, Data: make(map)}
NewResponse(status, body) ==
    [StatusCode |-> status, RawBody |-> body, Data |-> EmptyMap, Errors |-> <<>>]

\* the errors array, if it is one, goes to Errors and leaves the map; the map becomes Data
ExtractErrors(apiResp, jsonData) ==
    IF "errors" \in DOMAIN jsonData /\ jsonData["errors"].t = "array"
    THEN [apiResp EXCEPT !.Errors = apiResp.Errors \o StringEntries(jsonData["errors"].items),
                         !.Data = MapDelete(jsonData, "errors")]
    ELSE [apiResp EXCEPT !.Data = jsonData]

\* the status check without the test for an empty error list
CheckStatusAlways(apiResp) ==
    IF apiResp.StatusCode < 200 \/ apiResp.StatusCode >= 300
    THEN [apiResp EXCEPT !.Errors = Append(apiResp.Errors, HTTPStatusError(apiResp.StatusCode))]
    ELSE apiResp

\* the status check with the upper edge off by one
CheckStatusAbove300(apiResp) ==
    IF apiResp.StatusCode < 200 \/ apiResp.StatusCode > 300
    THEN IF Len(apiResp.Errors) = 0
         THEN [apiResp EXCEPT !.Errors = Append(apiResp.Errors, HTTPStatusError(apiResp.StatusCode))]
         ELSE apiResp
    ELSE apiResp

\* a status outside 200..299 with no error so far adds the HTTP-status string
CheckStatus(apiResp) ==
    IF apiResp.StatusCode < 200 \/ apiResp.StatusCode >= 300
    THEN IF Len(apiResp.Errors) = 0
         THEN [apiResp EXCEPT !.Errors = Append(apiResp.Errors, HTTPStatusError(apiResp.StatusCode))]
         ELSE apiResp
    ELSE apiResp

\* a parse failure reported as an error entry
UnmarshalFailedAsError(apiResp) ==
    [resp |-> [apiResp EXCEPT !.Errors = Append(apiResp.Errors, <<"invalid JSON">>)], err |-> NoErr]

\* json.Unmarshal failed: the response is returned as it is, without the status check
UnmarshalFailed(apiResp) == [resp |-> apiResp, err |-> NoErr]

\* w: the HTTP response as received, [StatusCode, Body, readOk]
parseResponse(w) ==
    IF ~w.readOk
    THEN [resp |-> NoResponse, err |-> "failed to read response body"]
    ELSE LET apiResp == NewResponse(w.StatusCode, w.Body)
         IN  IF BodyLen(w.Body) > 0
             THEN LET u == jsonUnmarshal(w.Body)
                  IN  IF ~u.ok
                      THEN UnmarshalFailed(apiResp)
                      ELSE [resp |-> CheckStatus(ExtractErrors(apiResp, u.map)), err |-> NoErr]
             ELSE [resp |-> CheckStatus(apiResp), err |-> NoErr]

\* a HasErrors that never finds an error
HasErrorsNever(r) == FALSE

\* Response.HasErrors
HasErrors(r) == Len(r.Errors) > 0

(***************************************************************************)
(* Command-line arguments                                                  *)
(***************************************************************************)
Rep(c, n) == [i \in 1..n |-> c]

\* characters a short data argument is built from: a hex digit and a non-hex
DataChars == {"A", "G"}

ShortData == UNION {[1..n -> DataChars] : n \in 0..MaxHexLen}

\* data arguments at the DMA limit and past it
LongData == {Rep("0", 2 * DmaLimitBytes + k) : k \in 0..MaxOver}

DataArgs == ShortData \cup LongData

AddressArgs ==
    {<<"0", "4", "0", "0">>, <<"4", "0", "0">>, <<"0", "x", "0", "4", "0", "0">>,
     <<"0", "4", "Z", "Z">>}

\* values of the --length flag of read-mem (default 256)
LengthArgs == {-1, 0, 16, 256}

\* a file on the device's filesystem
DeviceFiles == {<<"/usb0/demo.bin">>}

\* values of the --song flag (default 0)
SongArgs == {-1, 0, 3}

\* drive arguments: a drive number, and texts with characters special in a URL
DriveArgs == {<<"8">>, <<"8", "?", "x">>, <<"%", "z", "z">>}

\* values of --type and --mode of the mount commands (default "")
ImageTypeArgs == {<<>>, <<"d64">>}
MountModeArgs == {<<>>, <<"readonly">>}

\* mode arguments of set-mode
SetModeArgs == {<<"1541">>, <<"1571">>, <<"1581">>, <<"1551">>}

\* stream and ip arguments of the streams commands
StreamArgs == {<<"video">>, <<"audio">>, <<"debug">>, <<"laser">>}
IpArgs == {<<"1.2.3.4">>}

\* path, --tracks and --name of create-dnp; --tracks may be left out
DnpPathArgs == {<<"/usb0/big.dnp">>}
TracksArgs == {-1, 0, 1, 200, 255, 256, 300}
NameArgs == {<<>>, <<"BIG DISK">>}

\* path and --tracks of create-d64 (default 35); paths of files info, which
\* "supports wildcards"
ImagePathArgs == {<<"/usb0/new.img">>}
D64TracksArgs == {-1, 0, 35}
InfoPathArgs == {<<"/usb0/demo.bin">>, <<"/usb0/demo", "?", ".bin">>}

\* write-mem: every address with one data argument, every data argument with
\* one address
WriteMemInputs ==
    {<<address, <<"A", "A">>>> : address \in AddressArgs}
        \cup {<<<<"0", "4", "0", "0">>, data>> : data \in DataArgs}

\* read-mem: every address with the default length, every length with one address
ReadMemInputs ==
    {<<address, 256, json>> : address \in AddressArgs, json \in BOOLEAN}
        \cup {<<<<"0", "4", "0", "0">>, length, FALSE>> : length \in LengthArgs}

\* mount: every drive without flags, every combination of flags with one drive
MountInputs ==
    {<<drive, <<>>, <<>>>> : drive \in DriveArgs}
        \cup {<<<<"8">>, imageType, mode>> :
                 imageType \in ImageTypeArgs, mode \in MountModeArgs}

\* runners that play or run a file of the device, and their upload variants
RunnerCommands == {"sidplay", "modplay", "load-prg", "run-prg", "run-crt"}
RunnerUploadCommands ==
    {"sidplay-upload", "modplay-upload", "load-prg-upload", "run-prg-upload",
     "run-crt-upload"}

\* commands that send a local file as the request body
UploadCommands ==
    RunnerUploadCommands \cup {"write-mem-file", "mount-upload", "load-rom-upload"}

\* commands that take no argument and read from the device
QueryCommands == {"drives-list", "debug-reg", "info", "about"}

\* commands that create a disk image with an optional name
ImageCommands == {"create-d64", "create-d71", "create-d81"}

Commands ==
    {"reset", "write-mem", "write-mem-file", "read-mem", "start", "stop", "create-dnp",
     "mount", "mount-upload", "load-rom", "load-rom-upload", "set-mode", "files-info"}
        \cup RunnerCommands \cup RunnerUploadCommands \cup QueryCommands
        \cup ImageCommands

NoArgs ==
    [address |-> <<>>, data |-> <<>>, length |-> 0, file |-> <<>>, song |-> 0,
     drive |-> <<>>, imageType |-> <<>>, mode |-> <<>>, stream |-> <<>>, ip |-> <<>>,
     tracks |-> 0, name |-> <<>>, json |-> FALSE]

(***************************************************************************)
(* strconv.ParseInt(address, 16, 64), as read-mem uses it                  *)
(***************************************************************************)
HexDigitValue(c) ==
    CASE c = "0" -> 0 [] c = "1" -> 1 [] c = "2" -> 2 [] c = "3" -> 3
      [] c = "4" -> 4 [] c = "5" -> 5 [] c = "6" -> 6 [] c = "7" -> 7
      [] c = "8" -> 8 [] c = "9" -> 9
      [] c \in {"a", "A"} -> 10 [] c \in {"b", "B"} -> 11 [] c \in {"c", "C"} -> 12
      [] c \in {"d", "D"} -> 13 [] c \in {"e", "E"} -> 14 [] c \in {"f", "F"} -> 15
      [] OTHER -> -1

IsHexDigit(c) == HexDigitValue(c) >= 0

\* the value of a run of hex digits, most significant first
RECURSIVE HexValue(_)
HexValue(s) ==
    IF s = <<>> THEN 0
    ELSE 16 * HexValue(SubSeq(s, 1, Len(s) - 1)) + HexDigitValue(s[Len(s)])

\* base 16 given explicitly: an optional sign, then hex digits only; no 0x prefix
ParseInt(s) ==
    LET neg == Len(s) > 0 /\ s[1] = "-"
        signed == Len(s) > 0 /\ s[1] \in {"+", "-"}
        digits == IF signed THEN Tail(s) ELSE s
    IN  IF digits = <<>> \/ \E i \in DOMAIN digits : ~IsHexDigit(digits[i])
        THEN [ok |-> FALSE, value |-> 0]
        ELSE [ok |-> TRUE, value |-> IF neg THEN 0 - HexValue(digits) ELSE HexValue(digits)]

\* addr, err := strconv.ParseInt(address, 16, 64); if err != nil { addr = 0 }
DumpAddress(address) == IF ParseInt(address).ok THEN ParseInt(address).value ELSE 0

(***************************************************************************)
(* Requests: what the API functions hand to Client.Get / Put / Post        *)
(***************************************************************************)
\* method, endpoint, query parameters, and whether a file is the body
Request(method, path, params, hasBody) ==
    [method |-> method, path |-> path, params |-> params, hasBody |-> hasBody]

\* a parameter map with required keys and optional keys that are sent when set
Params(required, optional, value) ==
    [k \in required \cup {o \in optional : value[o] # <<>>} |-> value[k]]

\* strconv.Itoa
Itoa(n) == <<ToString(n)>>

\* Client.MachineReset
MachineReset == Request("PUT", <<"/v1/machine:reset">>, EmptyMap, FALSE)

\* Client.MachineWriteMem
MachineWriteMem(address, data) ==
    Request("PUT", <<"/v1/machine:writemem">>,
            [k \in {"address", "data"} |-> IF k = "address" THEN address ELSE data], FALSE)

\* Client.MachineWriteMemFile, after os.Open
MachineWriteMemFile(address) ==
    Request("POST", <<"/v1/machine:writemem">>, [k \in {"address"} |-> address], TRUE)

\* Client.MachineReadMem
MachineReadMem(address, length) ==
    Request("GET", <<"/v1/machine:readmem">>,
            [k \in {"address"} \cup (IF length > 0 THEN {"length"} ELSE {})
                |-> IF k = "address" THEN address ELSE Itoa(length)], FALSE)

\* Client.SidPlay
SidPlay(file, songNr) ==
    Request("PUT", <<"/v1/runners:sidplay">>,
            [k \in {"file"} \cup (IF songNr > 0 THEN {"songnr"} ELSE {})
                |-> IF k = "file" THEN file ELSE Itoa(songNr)], FALSE)

\* Client.SidPlayUpload leaving the song number out
SidPlayUploadNoSong(songNr) == Request("POST", <<"/v1/runners:sidplay">>, EmptyMap, TRUE)

\* Client.SidPlayUpload, after os.Open
SidPlayUpload(songNr) ==
    Request("POST", <<"/v1/runners:sidplay">>,
            [k \in (IF songNr > 0 THEN {"songnr"} ELSE {}) |-> Itoa(songNr)], TRUE)

\* Client.ModPlay, LoadPRG, RunPRG, RunCRT
ModPlay(file) == Request("PUT", <<"/v1/runners:modplay">>, [k \in {"file"} |-> file], FALSE)
LoadPRG(file) == Request("PUT", <<"/v1/runners:load_prg">>, [k \in {"file"} |-> file], FALSE)
RunPRG(file) == Request("PUT", <<"/v1/runners:run_prg">>, [k \in {"file"} |-> file], FALSE)
RunCRT(file) == Request("PUT", <<"/v1/runners:run_crt">>, [k \in {"file"} |-> file], FALSE)

\* Client.ModPlayUpload, LoadPRGUpload, RunPRGUpload, RunCRTUpload, after os.Open
ModPlayUpload == Request("POST", <<"/v1/runners:modplay">>, EmptyMap, TRUE)
LoadPRGUpload == Request("POST", <<"/v1/runners:load_prg">>, EmptyMap, TRUE)
RunPRGUpload == Request("POST", <<"/v1/runners:run_prg">>, EmptyMap, TRUE)
RunCRTUpload == Request("POST", <<"/v1/runners:run_crt">>, EmptyMap, TRUE)

\* fmt.Sprintf("/v1/drives/%s:<verb>", drive)
DriveEndpoint(drive, verb) == <<"/v1/drives/">> \o drive \o <<verb>>

\* Client.DrivesMount
DrivesMount(drive, image, imageType, mode) ==
    Request("PUT", DriveEndpoint(drive, ":mount"),
            Params({"image"}, {"type", "mode"},
                   [k \in {"image", "type", "mode"} |->
                       IF k = "image" THEN image ELSE IF k = "type" THEN imageType ELSE mode]),
            FALSE)

\* Client.DrivesMountUpload, after os.Open
DrivesMountUpload(drive, imageType, mode) ==
    Request("POST", DriveEndpoint(drive, ":mount"),
            Params({}, {"type", "mode"},
                   [k \in {"type", "mode"} |-> IF k = "type" THEN imageType ELSE mode]),
            TRUE)

\* Client.DrivesLoadROM
DrivesLoadROM(drive, file) ==
    Request("PUT", DriveEndpoint(drive, ":load_rom"), [k \in {"file"} |-> file], FALSE)

\* Client.DrivesLoadROMUpload, after os.Open
DrivesLoadROMUpload(drive) ==
    Request("POST", DriveEndpoint(drive, ":load_rom"), EmptyMap, TRUE)

\* Client.DrivesSetMode
DrivesSetMode(drive, mode) ==
    Request("PUT", DriveEndpoint(drive, ":set_mode"), [k \in {"mode"} |-> mode], FALSE)

\* Client.StreamsStart
StreamsStart(stream, ip) ==
    Request("PUT", <<"/v1/streams/">> \o stream \o <<":start">>, [k \in {"ip"} |-> ip], FALSE)

\* Client.StreamsStop
StreamsStop(stream) ==
    Request("PUT", <<"/v1/streams/">> \o stream \o <<":stop">>, EmptyMap, FALSE)

\* Client.FilesCreateDNP
FilesCreateDNP(path, tracks, diskName) ==
    Request("PUT", <<"/v1/files/">> \o path \o <<":create_dnp">>,
            Params({"tracks"}, {"diskname"},
                   [k \in {"tracks", "diskname"} |->
                       IF k = "tracks" THEN Itoa(tracks) ELSE diskName]),
            FALSE)

\* Client.FilesInfo
FilesInfo(path) == Request("GET", <<"/v1/files/">> \o path \o <<":info">>, EmptyMap, FALSE)

\* Client.FilesCreateD64
FilesCreateD64(path, tracks, diskName) ==
    Request("PUT", <<"/v1/files/">> \o path \o <<":create_d64">>,
            [k \in (IF tracks > 0 THEN {"tracks"} ELSE {})
                     \cup (IF diskName # <<>> THEN {"diskname"} ELSE {})
                |-> IF k = "tracks" THEN Itoa(tracks) ELSE diskName], FALSE)

\* Client.FilesCreateD71, FilesCreateD81
FilesCreateD71(path, diskName) ==
    Request("PUT", <<"/v1/files/">> \o path \o <<":create_d71">>,
            Params({}, {"diskname"}, [k \in {"diskname"} |-> diskName]), FALSE)
FilesCreateD81(path, diskName) ==
    Request("PUT", <<"/v1/files/">> \o path \o <<":create_d81">>,
            Params({}, {"diskname"}, [k \in {"diskname"} |-> diskName]), FALSE)

\* Client.DrivesList, MachineDebugReg, GetInfo, and the Get of aboutCmd
DrivesList == Request("GET", <<"/v1/drives">>, EmptyMap, FALSE)
MachineDebugReg == Request("GET", <<"/v1/machine:debugreg">>, EmptyMap, FALSE)
GetInfo == Request("GET", <<"/v1/info">>, EmptyMap, FALSE)
GetVersion == Request("GET", <<"/v1/version">>, EmptyMap, FALSE)

\* the API call each command makes with its arguments
ApiCall(c, a) ==
    CASE c = "reset" -> MachineReset
      [] c = "write-mem" -> MachineWriteMem(a.address, a.data)
      [] c = "write-mem-file" -> MachineWriteMemFile(a.address)
      [] c = "read-mem" -> MachineReadMem(a.address, a.length)
      [] c = "sidplay" -> SidPlay(a.file, a.song)
      [] c = "sidplay-upload" -> SidPlayUpload(a.song)
      [] c = "modplay" -> ModPlay(a.file)
      [] c = "modplay-upload" -> ModPlayUpload
      [] c = "load-prg" -> LoadPRG(a.file)
      [] c = "load-prg-upload" -> LoadPRGUpload
      [] c = "run-prg" -> RunPRG(a.file)
      [] c = "run-prg-upload" -> RunPRGUpload
      [] c = "run-crt" -> RunCRT(a.file)
      [] c = "run-crt-upload" -> RunCRTUpload
      [] c = "mount" -> DrivesMount(a.drive, a.file, a.imageType, a.mode)
      [] c = "mount-upload" -> DrivesMountUpload(a.drive, a.imageType, a.mode)
      [] c = "load-rom" -> DrivesLoadROM(a.drive, a.file)
      [] c = "load-rom-upload" -> DrivesLoadROMUpload(a.drive)
      [] c = "set-mode" -> DrivesSetMode(a.drive, a.mode)
      [] c = "start" -> StreamsStart(a.stream, a.ip)
      [] c = "stop" -> StreamsStop(a.stream)
      [] c = "create-dnp" -> FilesCreateDNP(a.file, a.tracks, a.name)
      [] c = "files-info" -> FilesInfo(a.file)
      [] c = "create-d64" -> FilesCreateD64(a.file, a.tracks, a.name)
      [] c = "create-d71" -> FilesCreateD71(a.file, a.name)
      [] c = "create-d81" -> FilesCreateD81(a.file, a.name)
      [] c = "drives-list" -> DrivesList
      [] c = "debug-reg" -> MachineDebugReg
      [] c = "info" -> GetInfo
      [] c = "about" -> GetVersion

(***************************************************************************)
(* url.Parse(c.BaseURL + endpoint).  BaseURL is "http://<host>:<port>"     *)
(* with a well-formed host, so what can go wrong comes from the endpoint:  *)
(* a "#" starts the fragment, a "?" starts the query, and a "%" in the     *)
(* path must be followed by two hex digits.                                *)
(***************************************************************************)
\* index of the first token c of s, 0 when there is none
IndexOf(s, c) ==
    IF \E i \in DOMAIN s : s[i] = c
    THEN CHOOSE i \in DOMAIN s : s[i] = c /\ \A j \in 1..(i - 1) : s[j] # c
    ELSE 0

Before(s, c) == IF IndexOf(s, c) = 0 THEN s ELSE SubSeq(s, 1, IndexOf(s, c) - 1)
After(s, c) == IF IndexOf(s, c) = 0 THEN <<>> ELSE SubSeq(s, IndexOf(s, c) + 1, Len(s))

\* every % of the path starts a %XX escape
ValidEscapes(p) ==
    \A i \in DOMAIN p :
        p[i] = "%" => (i + 2 <= Len(p) /\ IsHexDigit(p[i + 1]) /\ IsHexDigit(p[i + 2]))

URLParse(endpoint) ==
    LET rest == Before(endpoint, "#")
        path == Before(rest, "?")
    IN  [ok |-> ValidEscapes(path), path |-> path, rawQuery |-> After(rest, "?")]

(***************************************************************************)
(* State of one invocation                                                 *)
(***************************************************************************)
VARIABLES
    pc,          \* position of the invocation
    cmd,         \* the command being run
    args,        \* its arguments
    requests,    \* HTTP requests issued so far
    wire,        \* what came back from the transport
    resp,        \* the *Response the API call returned
    err,         \* the error the API call returned
    out,         \* reports printed so far
    exitCode,    \* exit code of the process, NotExited while it runs
    fileState,   \* the local file of an upload: "ok", "unreadable", "missing"
    fileOpen,    \* whether the upload's file handle is open
    hexIn,       \* the string given to hexToBytes
    hexOut,      \* what hexToBytes, then bytesToHex, returned for it
    cfgIn,       \* the flags, environment and config file of the invocation
    cfgOut,      \* the client built from them
    dumpIn,      \* the bytes and start address given to FormatMemoryDump
    dumpOut      \* the text it returned

vars ==
    <<pc, cmd, args, requests, wire, resp, err, out, exitCode, fileState, fileOpen,
      hexIn, hexOut, cfgIn, cfgOut, dumpIn, dumpOut>>

\* the variables of the helpers checked on their own, which no command touches
helperVars == <<hexIn, hexOut, cfgIn, cfgOut, dumpIn, dumpOut>>

NotExited == -1
NoWire == [kind |-> "none"]
NoHex == [step |-> "none", err |-> NoErr, bytes |-> <<>>, text |-> <<>>]
NoConfig == [step |-> "none"]
NoDumpText == [step |-> "none", text |-> <<>>]

\* the start address of a read-mem report that is not a hex dump (--json)
NoDump == -1

Init ==
    /\ pc = "idle"
    /\ cmd = "none"
    /\ args = NoArgs
    /\ requests = <<>>
    /\ wire = NoWire
    /\ resp = NoResponse
    /\ err = NoErr
    /\ out = <<>>
    /\ exitCode = NotExited
    /\ fileState \in {"ok", "unreadable", "missing"}
    /\ fileOpen = FALSE
    /\ hexIn = <<>>
    /\ hexOut = NoHex
    /\ cfgIn = NoConfig
    /\ cfgOut = NoConfig
    /\ dumpIn = NoConfig
    /\ dumpOut = NoDumpText

\* Formatter.Error: prints the report and calls os.Exit(1)
FormatterError(message, details) ==
    /\ out' = Append(out, [kind |-> "error", message |-> message, details |-> details])
    /\ exitCode' = 1
    /\ pc' = "exited"

\* Formatter.Success, after which Run returns and main exits with 0
FormatterSuccess(message) ==
    /\ out' = Append(out, [kind |-> "success", message |-> message])
    /\ exitCode' = 0
    /\ pc' = "exited"

FailureMessage(c) ==
    CASE c = "reset" -> "Failed to reset machine"
      [] c = "write-mem" -> "Failed to write memory"
      [] c = "write-mem-file" -> "Failed to write memory from file"
      [] c = "read-mem" -> "Failed to read memory"
      [] c = "sidplay" -> "Failed to play SID file"
      [] c = "sidplay-upload" -> "Failed to upload and play SID file"
      [] c = "modplay" -> "Failed to play MOD file"
      [] c = "modplay-upload" -> "Failed to upload and play MOD file"
      [] c = "load-prg" -> "Failed to load PRG file"
      [] c = "load-prg-upload" -> "Failed to upload and load PRG file"
      [] c = "run-prg" -> "Failed to run PRG file"
      [] c = "run-prg-upload" -> "Failed to upload and run PRG file"
      [] c = "run-crt" -> "Failed to start cartridge"
      [] c = "run-crt-upload" -> "Failed to upload and start cartridge"
      [] c = "mount" -> "Failed to mount image"
      [] c = "mount-upload" -> "Failed to upload and mount image"
      [] c = "load-rom" -> "Failed to load ROM"
      [] c = "load-rom-upload" -> "Failed to upload and load ROM"
      [] c = "set-mode" -> "Failed to set drive mode"
      [] c = "start" -> "Failed to start stream"
      [] c = "stop" -> "Failed to stop stream"
      [] c = "create-dnp" -> "Failed to create DNP image"
      [] c = "files-info" -> "Failed to get file info"
      [] c = "create-d64" -> "Failed to create D64 image"
      [] c = "create-d71" -> "Failed to create D71 image"
      [] c = "create-d81" -> "Failed to create D81 image"
      [] c = "drives-list" -> "Failed to list drives"
      [] c = "debug-reg" -> "Failed to read debug register"
      [] c = "info" -> "Failed to get device info"
      [] c = "about" -> "Failed to get API version"

\* the Content-Type header as Client.PostJSON sets it
ContentTypeJSON(method) == IF method = "POST" THEN "application/json" ELSE ""

\* the Content-Type header: Client.Post sets it, Get and Put set none
ContentType(method) == IF method = "POST" THEN "application/octet-stream" ELSE ""

\* the request as it leaves: the parsed path, the query already in the endpoint,
\* and the parameters set on top of it
Issued(req, u) ==
    [method |-> req.method, path |-> u.path, rawQuery |-> u.rawQuery,
     params |-> req.params, hasBody |-> req.hasBody,
     contentType |-> ContentType(req.method)]

\* Client.Get / Client.Put up to HTTPClient.Do: url.Parse fails and the command
\* reports it, or the request leaves
Send(c, a, req) ==
    /\ cmd' = c
    /\ args' = a
    /\ IF URLParse(req.path).ok
       THEN /\ requests' = Append(requests, Issued(req, URLParse(req.path)))
            /\ pc' = "inflight"
            /\ UNCHANGED <<err, out, exitCode>>
       ELSE /\ err' = "invalid URL"
            /\ FormatterError(FailureMessage(c), <<"invalid URL">>)
            /\ UNCHANGED requests
    /\ UNCHANGED <<wire, resp>>

\* a check of the command's Run failed: formatter.Error before any API call
Reject(c, a, message, details) ==
    /\ cmd' = c
    /\ args' = a
    /\ FormatterError(message, details)
    /\ UNCHANGED <<requests, wire, resp, err>>

\* cobra.ExactArgs: a wrong number of arguments ends the run in main
ArgsError ==
    /\ pc = "idle"
    /\ \E c \in Commands \ ({"reset"} \cup QueryCommands) :
        /\ cmd' = c
        /\ out' = Append(out, [kind |-> "usage", message |-> "accepts n arg(s)"])
        /\ exitCode' = 1
        /\ pc' = "exited"
    /\ UNCHANGED <<args, requests, wire, resp, err, fileState, fileOpen, helperVars>>

\* MarkFlagRequired("tracks"): create-dnp without --tracks ends the run in main
RequiredFlagError ==
    /\ pc = "idle"
    /\ \E path \in DnpPathArgs, name \in NameArgs :
        /\ cmd' = "create-dnp"
        /\ args' = [NoArgs EXCEPT !.file = path, !.name = name]
        /\ out' = Append(out, [kind |-> "usage", message |-> "required flag(s) not set"])
        /\ exitCode' = 1
        /\ pc' = "exited"
    /\ UNCHANGED <<requests, wire, resp, err, fileState, fileOpen, helperVars>>

\* machineResetCmd.Run up to the request
RunReset ==
    /\ pc = "idle"
    /\ Send("reset", NoArgs, ApiCall("reset", NoArgs))
    /\ UNCHANGED <<fileState, fileOpen, helperVars>>

\* machineWriteMemCmd.Run up to the request
RunWriteMem ==
    /\ pc = "idle"
    /\ \E in \in WriteMemInputs :
        LET a == [NoArgs EXCEPT !.address = in[1], !.data = in[2]]
        IN  Send("write-mem", a, ApiCall("write-mem", a))
    /\ UNCHANGED <<fileState, fileOpen, helperVars>>

\* machineReadMemCmd.Run up to the request
RunReadMem ==
    /\ pc = "idle"
    /\ \E in \in ReadMemInputs :
        LET a == [NoArgs EXCEPT !.address = in[1], !.length = in[2], !.json = in[3]]
        IN  Send("read-mem", a, ApiCall("read-mem", a))
    /\ UNCHANGED <<fileState, fileOpen, helperVars>>

\* sidPlayCmd, modPlayCmd, loadPrgCmd, runPrgCmd, runCrtCmd: Run up to the request
RunRunner ==
    /\ pc = "idle"
    /\ \E c \in RunnerCommands, file \in DeviceFiles, song \in SongArgs :
        /\ c # "sidplay" => song = 0
        /\ LET a == [NoArgs EXCEPT !.file = file, !.song = song]
           IN  Send(c, a, ApiCall(c, a))
    /\ UNCHANGED <<fileState, fileOpen, helperVars>>

\* drivesMountCmd.Run up to the request
RunDrivesMount ==
    /\ pc = "idle"
    /\ \E in \in MountInputs, image \in DeviceFiles :
        LET a == [NoArgs EXCEPT !.drive = in[1], !.file = image,
                                !.imageType = in[2], !.mode = in[3]]
        IN  Send("mount", a, ApiCall("mount", a))
    /\ UNCHANGED <<fileState, fileOpen, helperVars>>

\* drivesLoadROMCmd.Run up to the request
RunDrivesLoadROM ==
    /\ pc = "idle"
    /\ \E drive \in DriveArgs, file \in DeviceFiles :
        LET a == [NoArgs EXCEPT !.drive = drive, !.file = file]
        IN  Send("load-rom", a, ApiCall("load-rom", a))
    /\ UNCHANGED <<fileState, fileOpen, helperVars>>

\* validModes of drivesSetModeCmd
validModes == {<<"1541">>, <<"1571">>, <<"1581">>}

\* drivesSetModeCmd.Run up to the request
RunDrivesSetMode ==
    /\ pc = "idle"
    /\ \E drive \in DriveArgs, mode \in SetModeArgs :
        LET a == [NoArgs EXCEPT !.drive = drive, !.mode = mode]
        IN  IF mode \notin validModes
            THEN Reject("set-mode", a, "Invalid mode",
                        <<"Mode is not valid", "Valid modes: 1541, 1571, 1581">>)
            ELSE Send("set-mode", a, ApiCall("set-mode", a))
    /\ UNCHANGED <<fileState, fileOpen, helperVars>>

\* validStreams accepting every name
validStreamsAny == StreamArgs

\* validStreams of streamsStartCmd and streamsStopCmd
validStreams == {<<"video">>, <<"audio">>, <<"debug">>}

\* streamsStartCmd.Run up to the request
RunStreamsStart ==
    /\ pc = "idle"
    /\ \E stream \in StreamArgs, ip \in IpArgs :
        LET a == [NoArgs EXCEPT !.stream = stream, !.ip = ip]
        IN  IF stream \notin validStreams
            THEN Reject("start", a, "Invalid stream type",
                        <<"Stream is not valid", "Valid streams: video, audio, debug">>)
            ELSE Send("start", a, ApiCall("start", a))
    /\ UNCHANGED <<fileState, fileOpen, helperVars>>

\* streamsStopCmd.Run up to the request
RunStreamsStop ==
    /\ pc = "idle"
    /\ \E stream \in StreamArgs :
        LET a == [NoArgs EXCEPT !.stream = stream]
        IN  IF stream \notin validStreams
            THEN Reject("stop", a, "Invalid stream type",
                        <<"Stream is not valid", "Valid streams: video, audio, debug">>)
            ELSE Send("stop", a, ApiCall("stop", a))
    /\ UNCHANGED <<fileState, fileOpen, helperVars>>

\* filesCreateDNPCmd.Run up to the request, --tracks given
RunFilesCreateDNP ==
    /\ pc = "idle"
    /\ \E path \in DnpPathArgs, tracks \in TracksArgs, name \in NameArgs :
        LET a == [NoArgs EXCEPT !.file = path, !.tracks = tracks, !.name = name]
        IN  IF tracks = 0
            THEN Reject("create-dnp", a, "Missing required flag",
                        <<"--tracks is required for DNP images">>)
            ELSE IF tracks > 255
            THEN Reject("create-dnp", a, "Invalid tracks value",
                        <<"DNP images support max 255 tracks">>)
            ELSE Send("create-dnp", a, ApiCall("create-dnp", a))
    /\ UNCHANGED <<fileState, fileOpen, helperVars>>

\* filesInfoCmd.Run up to the request
RunFilesInfo ==
    /\ pc = "idle"
    /\ \E path \in InfoPathArgs :
        LET a == [NoArgs EXCEPT !.file = path]
        IN  Send("files-info", a, ApiCall("files-info", a))
    /\ UNCHANGED <<fileState, fileOpen, helperVars>>

\* filesCreateD64Cmd, filesCreateD71Cmd, filesCreateD81Cmd: Run up to the request
RunFilesCreateImage ==
    /\ pc = "idle"
    /\ \E c \in ImageCommands, path \in ImagePathArgs, tracks \in D64TracksArgs,
          name \in NameArgs :
        /\ c # "create-d64" => tracks = 0
        /\ LET a == [NoArgs EXCEPT !.file = path, !.tracks = tracks, !.name = name]
           IN  Send(c, a, ApiCall(c, a))
    /\ UNCHANGED <<fileState, fileOpen, helperVars>>

\* drivesListCmd, machineDebugRegCmd, infoCmd, aboutCmd: Run up to the request
RunQuery ==
    /\ pc = "idle"
    /\ \E c \in QueryCommands : Send(c, NoArgs, ApiCall(c, NoArgs))
    /\ UNCHANGED <<fileState, fileOpen, helperVars>>

\* the upload command's Run up to the API call: the existence check
StatLocalFile(c, a) ==
    /\ cmd' = c
    /\ args' = a
    /\ IF fileState = "missing"
       THEN FormatterError("File not found", <<"file">>)
       ELSE pc' = "statted" /\ UNCHANGED <<out, exitCode>>
    /\ UNCHANGED <<requests, wire, resp, err, fileState, fileOpen, helperVars>>

\* machineWriteMemFileCmd.Run: the existence check
RunWriteMemFile ==
    /\ pc = "idle"
    /\ \E address \in AddressArgs :
        StatLocalFile("write-mem-file", [NoArgs EXCEPT !.address = address])

\* sidPlayUploadCmd, modPlayUploadCmd, loadPrgUploadCmd, runPrgUploadCmd,
\* runCrtUploadCmd: the existence check
RunRunnerUpload ==
    /\ pc = "idle"
    /\ \E c \in RunnerUploadCommands, song \in SongArgs :
        /\ c # "sidplay-upload" => song = 0
        /\ StatLocalFile(c, [NoArgs EXCEPT !.song = song])

\* drivesMountUploadCmd.Run: the existence check
RunDrivesMountUpload ==
    /\ pc = "idle"
    /\ \E in \in MountInputs :
        StatLocalFile("mount-upload",
                      [NoArgs EXCEPT !.drive = in[1], !.imageType = in[2], !.mode = in[3]])

\* drivesLoadROMUploadCmd.Run: the existence check
RunDrivesLoadROMUpload ==
    /\ pc = "idle"
    /\ \E drive \in DriveArgs :
        StatLocalFile("load-rom-upload", [NoArgs EXCEPT !.drive = drive])

\* os.Open succeeding whatever the state of the file
CanOpenAlways(state) == TRUE

\* whether os.Open succeeds on the local file
CanOpen(state) == state = "ok"

\* the *Upload API functions and MachineWriteMemFile: os.Open, defer file.Close()
OpenLocalFile ==
    /\ pc = "statted"
    /\ IF CanOpen(fileState)
       THEN /\ fileOpen' = TRUE
            /\ pc' = "opened"
            /\ UNCHANGED <<err, out, exitCode>>
       ELSE /\ err' = "failed to open file"
            /\ FormatterError(FailureMessage(cmd), <<"failed to open file">>)
            /\ UNCHANGED fileOpen
    /\ UNCHANGED <<cmd, args, requests, wire, resp, fileState, helperVars>>

\* Client.Post without the deferred Close when url.Parse fails
PostUploadNoClose ==
    /\ pc = "opened"
    /\ LET req == ApiCall(cmd, args)
       IN  IF URLParse(req.path).ok
           THEN /\ requests' = Append(requests, Issued(req, URLParse(req.path)))
                /\ pc' = "inflight"
                /\ UNCHANGED <<err, out, exitCode, fileOpen>>
           ELSE /\ err' = "invalid URL"
                /\ FormatterError(FailureMessage(cmd), <<"invalid URL">>)
                /\ UNCHANGED <<requests, fileOpen>>
    /\ UNCHANGED <<cmd, args, wire, resp, fileState, helperVars>>

\* Client.Post up to HTTPClient.Do, with the open file as the body; when url.Parse
\* fails the API function returns and its deferred Close runs
PostUpload ==
    /\ pc = "opened"
    /\ LET req == ApiCall(cmd, args)
       IN  IF URLParse(req.path).ok
           THEN /\ requests' = Append(requests, Issued(req, URLParse(req.path)))
                /\ pc' = "inflight"
                /\ UNCHANGED <<err, out, exitCode, fileOpen>>
           ELSE /\ err' = "invalid URL"
                /\ fileOpen' = FALSE
                /\ FormatterError(FailureMessage(cmd), <<"invalid URL">>)
                /\ UNCHANGED requests
    /\ UNCHANGED <<cmd, args, wire, resp, fileState, helperVars>>

\* another process removes the local file
RemoveFile ==
    /\ pc \in {"statted", "opened", "inflight", "returned", "sizing"}
    /\ cmd \in UploadCommands
    /\ fileState # "missing"
    /\ fileState' = "missing"
    /\ UNCHANGED <<pc, cmd, args, requests, wire, resp, err, out, exitCode, fileOpen,
                   helperVars>>

\* HTTPClient.Do fails: DNS, connect, timeout
TransportFail ==
    /\ pc = "inflight"
    /\ wire' = [kind |-> "transport"]
    /\ pc' = "returned"
    /\ UNCHANGED <<cmd, args, requests, resp, err, out, exitCode, fileState, fileOpen,
                   helperVars>>

\* the device answers; reading the body off the connection may fail (io.ReadAll)
DeviceRespond ==
    /\ pc = "inflight"
    /\ \E status \in Statuses, body \in Bodies :
        \/ wire' = [kind |-> "response", StatusCode |-> status, Body |-> body, readOk |-> TRUE]
        \/ /\ body = EmptyBody
           /\ wire' = [kind |-> "response", StatusCode |-> status, Body |-> body, readOk |-> FALSE]
    /\ pc' = "returned"
    /\ UNCHANGED <<cmd, args, requests, resp, err, out, exitCode, fileState, fileOpen,
                   helperVars>>

\* what Get / Put / Post return once Do has returned
Returned(w) ==
    IF w.kind = "transport"
    THEN [resp |-> NoResponse, err |-> "HTTP request failed"]
    ELSE parseResponse(w)

\* the report of read-mem: a hex dump from the parsed address, or the JSON data
ReadMemReport(a) ==
    [kind |-> "data", message |-> "Memory dump",
     start |-> IF a.json THEN NoDump ELSE DumpAddress(a.address)]

\* what a command that reads from the device prints: the response's data
DataReport == [kind |-> "data", message |-> "Response data", start |-> NoDump]

\* the rest of the command's Run, after the API call has returned
Complete ==
    /\ pc = "returned"
    /\ LET r == Returned(wire)
       IN  /\ resp' = r.resp
           /\ err' = r.err
           /\ fileOpen' = FALSE
           /\ IF r.err # NoErr
              THEN FormatterError(FailureMessage(cmd), <<r.err>>)
              ELSE IF HasErrors(r.resp)
              THEN FormatterError("API returned errors", r.resp.Errors)
              ELSE IF cmd = "write-mem-file"
              THEN pc' = "sizing" /\ UNCHANGED <<out, exitCode>>
              ELSE IF cmd = "read-mem"
              THEN /\ out' = Append(out, ReadMemReport(args))
                   /\ exitCode' = 0
                   /\ pc' = "exited"
              ELSE IF cmd \in {"drives-list", "info", "about", "files-info"}
              THEN /\ out' = Append(out, DataReport)
                   /\ exitCode' = 0
                   /\ pc' = "exited"
              ELSE FormatterSuccess("done")
    /\ UNCHANGED <<cmd, args, requests, wire, fileState, helperVars>>

\* machineWriteMemFileCmd.Run: the size lookup and the success report
SizeLookup ==
    /\ pc = "sizing"
    /\ IF fileState = "missing"
       THEN /\ out' = Append(out, [kind |-> "panic", message |-> "nil pointer dereference"])
            /\ exitCode' = 2
            /\ pc' = "exited"
       ELSE FormatterSuccess("Wrote file to memory")
    /\ UNCHANGED <<cmd, args, requests, wire, resp, err, fileState, fileOpen, helperVars>>

Next ==
    \/ ArgsError
    \/ RequiredFlagError
    \/ RunReset
    \/ RunWriteMem
    \/ RunReadMem
    \/ RunRunner
    \/ RunDrivesMount
    \/ RunDrivesLoadROM
    \/ RunDrivesSetMode
    \/ RunStreamsStart
    \/ RunStreamsStop
    \/ RunFilesCreateDNP
    \/ RunFilesInfo
    \/ RunFilesCreateImage
    \/ RunQuery
    \/ RunWriteMemFile
    \/ RunRunnerUpload
    \/ RunDrivesMountUpload
    \/ RunDrivesLoadROMUpload
    \/ OpenLocalFile
    \/ PostUpload
    \/ RemoveFile
    \/ TransportFail
    \/ DeviceRespond
    \/ Complete
    \/ SizeLookup

Spec == Init /\ [][Next]_vars

(***************************************************************************)
(* The hex helpers of machine.go: hexToBytes and bytesToHex                *)
(***************************************************************************)
\* characters the helpers' inputs are built from: digits of either case, a non-hex
CodecChars == {"0", "a", "F", "g"}

CodecDigits == UNION {[1..n -> CodecChars] : n \in 0..MaxCodecLen}

\* the inputs, bare and with the 0x prefix
CodecInputs == CodecDigits \cup {<<"0", "x">> \o s : s \in CodecDigits}

\* hex.DecodeString: each pair of digits is one byte; the first bad character
\* ends the decoding with the bytes decoded so far; a lone last digit is ErrLength
DecodeString(s) ==
    LET n == Len(s) \div 2
        byte(i) == 16 * HexDigitValue(s[2 * i - 1]) + HexDigitValue(s[2 * i])
        badPairs == {i \in 1..n : ~IsHexDigit(s[2 * i - 1]) \/ ~IsHexDigit(s[2 * i])}
        good == IF badPairs = {} THEN n
                ELSE (CHOOSE i \in badPairs : \A j \in badPairs : i <= j) - 1
    IN  [bytes |-> [i \in 1..good |-> byte(i)],
         err |-> IF badPairs # {} THEN "InvalidByteError"
                 ELSE IF Len(s) % 2 = 1
                 THEN (IF IsHexDigit(s[Len(s)]) THEN "ErrLength" ELSE "InvalidByteError")
                 ELSE NoErr]

\* hexToBytes: strip a 0x prefix, pad an odd length with a leading zero, decode
hexToBytes(hexStr) ==
    LET stripped == IF Len(hexStr) > 2 /\ SubSeq(hexStr, 1, 2) = <<"0", "x">>
                    THEN SubSeq(hexStr, 3, Len(hexStr)) ELSE hexStr
        padded == IF Len(stripped) % 2 # 0 THEN <<"0">> \o stripped ELSE stripped
    IN  DecodeString(padded)

\* the digits of hex.EncodeToString
hextable ==
    <<"0", "1", "2", "3", "4", "5", "6", "7", "8", "9", "a", "b", "c", "d", "e", "f">>

\* bytesToHex writing the low digit of each byte first
bytesToHexLowFirst(data) ==
    [i \in 1..(2 * Len(data)) |->
        IF i % 2 = 1 THEN hextable[(data[(i + 1) \div 2] % 16) + 1]
        ELSE hextable[(data[i \div 2] \div 16) + 1]]

\* bytesToHex: hex.EncodeToString, two lower-case digits per byte
bytesToHex(data) ==
    [i \in 1..(2 * Len(data)) |->
        IF i % 2 = 1 THEN hextable[(data[(i + 1) \div 2] \div 16) + 1]
        ELSE hextable[(data[i \div 2] % 16) + 1]]

\* a caller hands a string to hexToBytes
CodecInit ==
    /\ pc = "idle"
    /\ cmd = "none"
    /\ args = NoArgs
    /\ requests = <<>>
    /\ wire = NoWire
    /\ resp = NoResponse
    /\ err = NoErr
    /\ out = <<>>
    /\ exitCode = NotExited
    /\ fileState = "ok"
    /\ fileOpen = FALSE
    /\ hexIn \in CodecInputs
    /\ hexOut = NoHex
    /\ cfgIn = NoConfig
    /\ cfgOut = NoConfig
    /\ dumpIn = NoConfig
    /\ dumpOut = NoDumpText

commandVars == <<pc, cmd, args, requests, wire, resp, err, out, exitCode, fileState, fileOpen>>

\* the call of hexToBytes
CodecHexToBytes ==
    /\ hexOut.step = "none"
    /\ hexOut' = [step |-> "decoded", err |-> hexToBytes(hexIn).err,
                  bytes |-> hexToBytes(hexIn).bytes, text |-> <<>>]
    /\ UNCHANGED <<hexIn, commandVars, cfgIn, cfgOut, dumpIn, dumpOut>>

\* the call of bytesToHex on the bytes hexToBytes returned
CodecBytesToHex ==
    /\ hexOut.step = "decoded"
    /\ hexOut.err = NoErr
    /\ hexOut' = [hexOut EXCEPT !.step = "encoded", !.text = bytesToHex(hexOut.bytes)]
    /\ UNCHANGED <<hexIn, commandVars, cfgIn, cfgOut, dumpIn, dumpOut>>

CodecNext ==
    \/ CodecHexToBytes
    \/ CodecBytesToHex

CodecSpec == CodecInit /\ [][CodecNext]_vars

(***************************************************************************)
(* Configuration: config.Load and rootCmd.PersistentPreRun.  A flag, an    *)
(* environment variable or a key of the config file is <<>> when it is not *)
(* given and <<value>> when it is; an environment variable's value is text *)
(***************************************************************************)
\* what an invocation finds: --host / --port, C64U_HOST / C64U_PORT, and
\* config.toml, which may be absent, readable, or not valid TOML
ConfigInputs ==
    {in \in [flagHost : {<<>>, <<<<"flag.host">>>>},
             flagPort : {<<>>, <<8001>>},
             envHost : {<<>>, <<<<>>>>, <<<<"env.host">>>>},
             envPort : {<<>>, <<<<>>>>, <<<<"8", "0", "0", "2">>>>, <<<<"8", "x">>>>},
             file : {"absent", "ok", "malformed"},
             fileHost : {<<>>, <<<<"file.host">>>>},
             filePort : {<<>>, <<8003>>}] :
        in.file # "ok" => (in.fileHost = <<>> /\ in.filePort = <<>>)}

\* viper's getEnv with AllowEmptyEnv: an empty value counts as set
getEnvAllowEmpty(env) == env

\* viper's getEnv: a variable set to the empty string counts as not set
getEnv(env) == IF env = <<<<>>>> THEN <<>> ELSE env

\* viper's find: the flag when changed, else the environment, else the config
\* file, else the default
Find(flag, env, file, default) ==
    IF flag # <<>> THEN [layer |-> "flag", value |-> flag[1]]
    ELSE IF getEnv(env) # <<>> THEN [layer |-> "env", value |-> env[1]]
    ELSE IF file # <<>> THEN [layer |-> "file", value |-> file[1]]
    ELSE [layer |-> "default", value |-> default]

\* the decoding of a text into the int field Port (weakly typed input)
DecodeInt(text) ==
    LET digits == <<"0", "1", "2", "3", "4", "5", "6", "7", "8", "9">>
        digit(c) == (CHOOSE d \in 1..10 : digits[d] = c) - 1
        value[i \in 0..Len(text)] == IF i = 0 THEN 0 ELSE 10 * value[i - 1] + digit(text[i])
        ok == text # <<>> /\ \A i \in DOMAIN text : \E d \in 1..10 : digits[d] = text[i]
    IN  [ok |-> ok, value |-> IF ok THEN value[Len(text)] ELSE 0]

\* config.Load: ReadInConfig, then Unmarshal of what find returns for each key
Load(in) ==
    LET host == Find(in.flagHost, in.envHost, in.fileHost, <<"localhost">>)
        port == Find(in.flagPort, in.envPort, in.filePort, 80)
        fromEnv == port.layer = "env"
    IN  IF in.file = "malformed" \/ (fromEnv /\ ~DecodeInt(port.value).ok)
        THEN [step |-> "failed", host |-> <<>>, port |-> 0, exitCode |-> 1]
        ELSE [step |-> "loaded", host |-> host.value,
              port |-> IF fromEnv THEN DecodeInt(port.value).value ELSE port.value,
              exitCode |-> NotExited]

\* an invocation starts with its flags, environment and config file
ConfigInit ==
    /\ pc = "idle"
    /\ cmd = "none"
    /\ args = NoArgs
    /\ requests = <<>>
    /\ wire = NoWire
    /\ resp = NoResponse
    /\ err = NoErr
    /\ out = <<>>
    /\ exitCode = NotExited
    /\ fileState = "ok"
    /\ fileOpen = FALSE
    /\ hexIn = <<>>
    /\ hexOut = NoHex
    /\ cfgIn \in ConfigInputs
    /\ cfgOut = NoConfig
    /\ dumpIn = NoConfig
    /\ dumpOut = NoDumpText

\* rootCmd.PersistentPreRun: config.Load, and os.Exit(1) when it fails
LoadConfig ==
    /\ cfgOut.step = "none"
    /\ cfgOut' = Load(cfgIn)
    /\ UNCHANGED <<cfgIn, commandVars, hexIn, hexOut, dumpIn, dumpOut>>

\* rootCmd.PersistentPreRun: the flags that were changed override, NewClient
OverrideAndBuildClient ==
    /\ cfgOut.step = "loaded"
    /\ cfgOut' = [cfgOut EXCEPT
                    !.step = "client",
                    !.host = IF cfgIn.flagHost # <<>> THEN cfgIn.flagHost[1] ELSE @,
                    !.port = IF cfgIn.flagPort # <<>> THEN cfgIn.flagPort[1] ELSE @]
    /\ UNCHANGED <<cfgIn, commandVars, hexIn, hexOut, dumpIn, dumpOut>>

ConfigNext ==
    \/ LoadConfig
    \/ OverrideAndBuildClient

ConfigSpec == ConfigInit /\ [][ConfigNext]_vars

(***************************************************************************)
(* FormatMemoryDump of machine.go.  A text is the sequence of its bytes:   *)
(* 32 is the space, 46 ".", 58 ":", 124 "|", 10 the newline, 48..57 the    *)
(* digits and 65..70 the letters A..F                                      *)
(***************************************************************************)
\* the digits of n in base 16, upper case, without padding
RECURSIVE HexDigitsOf(_)
HexDigitsOf(n) ==
    LET code(d) == IF d < 10 THEN 48 + d ELSE 55 + d
    IN  IF n < 16 THEN <<code(n)>> ELSE HexDigitsOf(n \div 16) \o <<code(n % 16)>>

\* fmt.Sprintf("%0<width>X", n) for n >= 0: zeros up to the width, never a cut
SprintfX(n, width) ==
    LET digits == HexDigitsOf(n)
    IN  [i \in 1..(IF Len(digits) < width THEN width - Len(digits) ELSE 0) |-> 48] \o digits

\* the ASCII representation printing the byte up to 127
AsciiCharUpTo127(b) == IF b >= 32 /\ b <= 127 THEN b ELSE 46

\* the ASCII representation of a byte: the byte when printable, else "."
AsciiChar(b) == IF b >= 32 /\ b <= 126 THEN b ELSE 46

\* one pass of the loop over i: the row of the bytes data[i .. i+15] (0-based)
FormatRow(data, startAddr, i) ==
    LET slot(j) ==
            (IF i + j < Len(data) THEN SprintfX(data[i + j + 1], 2) \o <<32>>
             ELSE <<32, 32, 32>>)
                \o (IF j = 7 THEN <<32>> ELSE <<>>)
        hex[j \in 0..16] == IF j = 0 THEN <<>> ELSE hex[j - 1] \o slot(j - 1)
        shown == IF Len(data) - i < 16 THEN Len(data) - i ELSE 16
    IN  SprintfX(startAddr + i, 4) \o <<58, 32>>
            \o hex[16]
            \o <<32, 124>>
            \o [j \in 1..shown |-> AsciiChar(data[i + j])]
            \o <<124, 10>>

\* FormatMemoryDump: the rows for i = 0, 16, 32, ... below len(data)
FormatMemoryDump(data, startAddr) ==
    LET rows == (Len(data) + 15) \div 16
        buf[k \in 0..rows] ==
            IF k = 0 THEN <<>> ELSE buf[k - 1] \o FormatRow(data, startAddr, 16 * (k - 1))
    IN  buf[rows]

\* the bytes read from the device: runs of consecutive values that start below
\* the printable range, inside it, at its upper end, and near 255; and the
\* start addresses, the last two of which leave the 16 bits within a dump
DumpInputs ==
    [data : {[i \in 1..n |-> (base + i - 1) % 256] :
                n \in 0..MaxDumpLen, base \in {0, 30, 65, 124, 248}},
     start : {0, 1024, 65520, 65535}]

\* a caller hands bytes and a start address to FormatMemoryDump
DumpInit ==
    /\ pc = "idle"
    /\ cmd = "none"
    /\ args = NoArgs
    /\ requests = <<>>
    /\ wire = NoWire
    /\ resp = NoResponse
    /\ err = NoErr
    /\ out = <<>>
    /\ exitCode = NotExited
    /\ fileState = "ok"
    /\ fileOpen = FALSE
    /\ hexIn = <<>>
    /\ hexOut = NoHex
    /\ cfgIn = NoConfig
    /\ cfgOut = NoConfig
    /\ dumpIn \in DumpInputs
    /\ dumpOut = NoDumpText

\* the call of FormatMemoryDump
DumpFormat ==
    /\ dumpOut.step = "none"
    /\ dumpOut' = [step |-> "formatted", text |-> FormatMemoryDump(dumpIn.data, dumpIn.start)]
    /\ UNCHANGED <<dumpIn, commandVars, hexIn, hexOut, cfgIn, cfgOut>>

DumpNext == DumpFormat

DumpSpec == DumpInit /\ [][DumpNext]_vars

(***************************************************************************)
(* Vocabulary of the properties                                            *)
(***************************************************************************)
\* the API call has returned and the command has acted on what it returned
Completed == wire # NoWire /\ pc \in {"sizing", "exited"}

\* parseResponse returned a Response for the response on the wire
Parsed == Completed /\ wire.kind = "response" /\ wire.readOk

IsJsonObject(body) == body.kind = "json" /\ body.v.t = "object"

HasErrorsArray(body) ==
    /\ IsJsonObject(body)
    /\ "errors" \in DOMAIN body.v.fields
    /\ body.v.fields["errors"].t = "array"

\* the string entries of a JSON array, in the order of the array
StringsOf(items) ==
    LET sel == SelectSeq(items, LAMBDA e : e.t = "string")
    IN  [i \in 1..Len(sel) |-> sel[i].s]

\* the strings the device supplied in the "errors" array of a body
DeviceSupplied(body) ==
    IF HasErrorsArray(body) THEN StringsOf(body.v.fields["errors"].items) ELSE <<>>

\* the fields of a JSON object other than "errors"
OtherFields(body) ==
    [k \in DOMAIN body.v.fields \ {"errors"} |-> body.v.fields[k]]

\* the 2xx status codes
Success2xx == 200..299

(***************************************************************************)
(* C1: whenever the status is not a 2xx and the device supplied no error   *)
(* string, Errors is exactly the one synthesized HTTP-status string,       *)
(* whatever the body is: empty, a JSON object, or bytes that are not a     *)
(* JSON object.                                                            *)
(***************************************************************************)
C1_SynthesizedForEveryBody ==
    (Parsed /\ wire.StatusCode \notin Success2xx /\ DeviceSupplied(wire.Body) = <<>>)
        => resp.Errors = <<HTTPStatusError(wire.StatusCode)>>

(***************************************************************************)
(* C2: for a body that is a JSON object, Data never has the key "errors",  *)
(* whatever the JSON type of the "errors" value.                           *)
(***************************************************************************)
C2_PayloadNeverHasErrorsKey ==
    (Parsed /\ IsJsonObject(wire.Body)) => "errors" \notin DOMAIN resp.Data

(***************************************************************************)
(* C3 as stated: for a JSON object with an "errors" array, Errors is       *)
(* exactly the string entries of the array in their order, and Data is     *)
(* exactly the other fields.                                               *)
(***************************************************************************)
C3_ErrorsAreTheStringEntries ==
    (Parsed /\ HasErrorsArray(wire.Body))
        => /\ resp.Errors = DeviceSupplied(wire.Body)
           /\ resp.Data = OtherFields(wire.Body)

(***************************************************************************)
(* C3 amended: for a JSON object with an "errors" array, Errors is exactly *)
(* the string entries of the array in their order, except that when there  *)
(* are none and the status is not a 2xx it is the one synthesized          *)
(* HTTP-status string; Data is exactly the other fields.                   *)
(***************************************************************************)
C3_ErrorsAreTheStringEntriesOrSynthesized ==
    (Parsed /\ HasErrorsArray(wire.Body))
        => /\ resp.Errors =
                IF DeviceSupplied(wire.Body) = <<>> /\ wire.StatusCode \notin Success2xx
                THEN <<HTTPStatusError(wire.StatusCode)>>
                ELSE DeviceSupplied(wire.Body)
           /\ resp.Data = OtherFields(wire.Body)

\* an array with a skipped non-string entry before a string entry, next to another field
C3_Witness ==
    /\ Parsed
    /\ HasErrorsArray(wire.Body)
    /\ "version" \in DOMAIN wire.Body.v.fields
    /\ Len(wire.Body.v.fields["errors"].items) = 2
    /\ wire.Body.v.fields["errors"].items[1].t = "number"
    /\ wire.Body.v.fields["errors"].items[2].t = "string"
    /\ Len(resp.Errors) = 1

(***************************************************************************)
(* C4: when the "errors" array holds at least one string, Errors is        *)
(* exactly the device's strings for every status code, with no HTTP-status *)
(* string appended; {"errors":["bad address"]} with status 400 gives       *)
(* errors = ["bad address"] and an empty payload.                          *)
(***************************************************************************)
C4_DeviceErrorsOnly ==
    /\ (Parsed /\ DeviceSupplied(wire.Body) # <<>>)
          => resp.Errors = DeviceSupplied(wire.Body)
    /\ (Parsed /\ wire.StatusCode = 400
               /\ wire.Body = JsonBody(JObj(MkFields(JArr(<<JStr(<<"bad address">>)>>), Absent))))
          => (resp.Errors = <<(<<"bad address">>)>> /\ resp.Data = EmptyMap)

C4_Witness ==
    /\ Parsed
    /\ wire.StatusCode = 400
    /\ wire.Body = JsonBody(JObj(MkFields(JArr(<<JStr(<<"bad address">>)>>), Absent)))
    /\ exitCode = 1

(***************************************************************************)
(* C5 as stated: for an empty body the payload is empty, Errors is empty   *)
(* exactly when the status lies in [200,299), and for every status outside *)
(* [200,299) Errors is one synthesized string.                             *)
(***************************************************************************)
C5_EmptyBodyUpTo299 ==
    (Parsed /\ wire.Body = EmptyBody)
        => /\ resp.Data = EmptyMap
           /\ (resp.Errors = <<>>) <=> (wire.StatusCode \in 200..298)
           /\ (wire.StatusCode \notin 200..298)
                 => resp.Errors = <<HTTPStatusError(wire.StatusCode)>>

(***************************************************************************)
(* C5 amended: for an empty body the payload is empty, Errors is empty     *)
(* exactly when the status lies in [200,300), and for every status outside *)
(* [200,300) Errors is one synthesized string.                             *)
(***************************************************************************)
C5_EmptyBodyUpTo300 ==
    (Parsed /\ wire.Body = EmptyBody)
        => /\ resp.Data = EmptyMap
           /\ (resp.Errors = <<>>) <=> (wire.StatusCode \in 200..299)
           /\ (wire.StatusCode \notin 200..299)
                 => resp.Errors = <<HTTPStatusError(wire.StatusCode)>>

\* an empty body at the upper edge of the range, and one just past it
C5_Witness ==
    /\ Parsed
    /\ wire.Body = EmptyBody
    /\ \/ wire.StatusCode = 299 /\ resp.Errors = <<>>
       \/ wire.StatusCode = 300 /\ Len(resp.Errors) = 1

(***************************************************************************)
(* C6: on every path through parseResponse that returns a Response,        *)
(* RawBody is the received body and StatusCode the received status.        *)
(***************************************************************************)
C6_RawBodyAndStatusKept ==
    Parsed => (resp.RawBody = wire.Body /\ resp.StatusCode = wire.StatusCode)

\* the parse-failure path with a non-empty body
C6_Witness ==
    /\ Parsed
    /\ wire.Body.kind = "raw"
    /\ BodyLen(wire.Body) > 0
    /\ wire.StatusCode = 404

(***************************************************************************)
(* C7: for status 200 and a non-empty body that is not a JSON object,      *)
(* Errors and Data are empty and no Go error is returned.                  *)
(***************************************************************************)
C7_BinaryBodyIsNoError ==
    (Completed /\ wire.kind = "response" /\ wire.readOk /\ wire.StatusCode = 200
               /\ BodyLen(wire.Body) > 0 /\ ~IsJsonObject(wire.Body))
        => (err = NoErr /\ resp # NoResponse /\ resp.Errors = <<>> /\ resp.Data = EmptyMap)

\* read-mem got binary data with status 200 and printed it
C7_Witness ==
    /\ Parsed
    /\ cmd = "read-mem"
    /\ wire.StatusCode = 200
    /\ wire.Body = RawBody(<<65, 66>>)
    /\ exitCode = 0

(***************************************************************************)
(* C8: an invocation ends with exit code 1 whenever a validation error, a  *)
(* local-file error, a transport error, a non-2xx status or a              *)
(* device-reported error occurred, and with exit code 0 only when none    *)
(* occurred.                                                               *)
(***************************************************************************)
ReportedKinds == {out[i].kind : i \in DOMAIN out}

ErrorOccurred ==
    \/ "usage" \in ReportedKinds
    \/ \E i \in DOMAIN out : out[i].kind = "error" /\ out[i].message = "File not found"
    \/ err = "failed to open file"
    \/ wire.kind = "transport"
    \/ wire.kind = "response" /\ ~wire.readOk
    \/ wire.kind = "response" /\ wire.StatusCode \notin Success2xx
    \/ wire.kind = "response" /\ wire.readOk /\ DeviceSupplied(wire.Body) # <<>>

C8_ExitCodeReflectsErrors ==
    pc = "exited"
        => /\ ErrorOccurred => exitCode = 1
           /\ exitCode = 0 => ~ErrorOccurred

(***************************************************************************)
(* C9: for write-mem, write-mem-file and read-mem, a malformed address     *)
(* (a non-hex character) or malformed hex data (a non-hex character, odd   *)
(* length) is rejected and no HTTP request is issued.                      *)
(***************************************************************************)
HexDigitChars ==
    {"0", "1", "2", "3", "4", "5", "6", "7", "8", "9",
     "a", "b", "c", "d", "e", "f", "A", "B", "C", "D", "E", "F"}

AllHex(s) == \A i \in DOMAIN s : s[i] \in HexDigitChars

\* the text without an optional 0x or $ prefix
Unprefixed(s) ==
    IF Len(s) >= 2 /\ s[1] = "0" /\ s[2] = "x" THEN SubSeq(s, 3, Len(s))
    ELSE IF Len(s) >= 1 /\ s[1] = "$" THEN Tail(s)
    ELSE s

MalformedAddress(s) == ~AllHex(Unprefixed(s))

MalformedData(s) == ~AllHex(s) \/ Len(s) % 2 # 0

MemoryCommands == {"write-mem", "write-mem-file", "read-mem"}

C9_MalformedArgumentsRejected ==
    (/\ cmd \in MemoryCommands
     /\ \/ MalformedAddress(args.address)
        \/ cmd = "write-mem" /\ MalformedData(args.data))
        => requests = <<>>

(***************************************************************************)
(* C10: write-mem never issues a request whose data parameter is longer    *)
(* than 256 hex digits, that is more than 128 bytes.                       *)
(***************************************************************************)
C10_DataWithinDmaLimit ==
    \A i \in DOMAIN requests :
        (requests[i].method = "PUT" /\ "data" \in DOMAIN requests[i].params)
            => Len(requests[i].params["data"]) <= 2 * DmaLimitBytes

(***************************************************************************)
(* C11: the addresses "400", "0400" and "0x0400" all parse to 0x0400, so   *)
(* a read-mem hex dump requested with any of the three starts its first    *)
(* row at address 0400.                                                    *)
(***************************************************************************)
SpellingsOf0400 ==
    {<<"4", "0", "0">>, <<"0", "4", "0", "0">>, <<"0", "x", "0", "4", "0", "0">>}

\* 0x0400
Address0400 == 4 * 16 * 16

C11_DumpStartsAt0400 ==
    \A i \in DOMAIN out :
        (/\ cmd = "read-mem"
         /\ args.address \in SpellingsOf0400
         /\ out[i].kind = "data"
         /\ ~args.json)
            => out[i].start = Address0400

(***************************************************************************)
(* C12: for every odd-length hex string the byte-string parser fails with  *)
(* an invalid-length error; it never returns bytes by padding or           *)
(* truncating the input.                                                   *)
(***************************************************************************)
\* hexToBytes has returned for the input
Decoded == hexOut.step \in {"decoded", "encoded"}

OddHexString(s) == AllHex(s) /\ Len(s) % 2 = 1

C12_OddLengthFails ==
    (Decoded /\ OddHexString(hexIn))
        => hexOut.err = "ErrLength" /\ hexOut.bytes = <<>>

(***************************************************************************)
(* C13: for every valid even-length hex string h, hexToBytes followed by   *)
(* bytesToHex yields h with its letters normalized to one case, and the    *)
(* byte count is len(h)/2.                                                 *)
(***************************************************************************)
ToLower(c) ==
    CASE c = "A" -> "a" [] c = "B" -> "b" [] c = "C" -> "c"
      [] c = "D" -> "d" [] c = "E" -> "e" [] c = "F" -> "f" [] OTHER -> c

ToUpper(c) ==
    CASE c = "a" -> "A" [] c = "b" -> "B" [] c = "c" -> "C"
      [] c = "d" -> "D" [] c = "e" -> "E" [] c = "f" -> "F" [] OTHER -> c

LowerCase(s) == [i \in DOMAIN s |-> ToLower(s[i])]
UpperCase(s) == [i \in DOMAIN s |-> ToUpper(s[i])]

EvenHexString(s) == AllHex(s) /\ Len(s) % 2 = 0

C13_RoundTripNormalizesCase ==
    EvenHexString(hexIn)
        => /\ Decoded => (hexOut.err = NoErr /\ 2 * Len(hexOut.bytes) = Len(hexIn))
           /\ hexOut.step = "encoded"
                => hexOut.text \in {LowerCase(hexIn), UpperCase(hexIn)}

\* a mixed-case string has made the round trip
C13_Witness ==
    /\ hexOut.step = "encoded"
    /\ hexIn = <<"a", "F">>
    /\ hexOut.text = <<"a", "f">>

(***************************************************************************)
(* Vocabulary of the request properties                                    *)
(***************************************************************************)
\* the command's Run has got past its checks of the arguments
PastChecks == pc \in {"inflight", "returned", "exited"}

\* the invocation ended with an error report, exit code 1, and no request
RejectedBeforeRequest ==
    /\ pc = "exited"
    /\ exitCode = 1
    /\ requests = <<>>
    /\ out # <<>>
    /\ out[Len(out)].kind \in {"error", "usage"}

\* exactly one request was issued: this method, this path, exactly this query
OneRequest(method, path, query) ==
    /\ Len(requests) = 1
    /\ requests[1].method = method
    /\ requests[1].path = path
    /\ requests[1].rawQuery = <<>>
    /\ requests[1].params = query

(***************************************************************************)
(* C14: create-dnp issues a request if and only if the track count is in   *)
(* 1..255; an absent --tracks, zero, a negative value and a value above    *)
(* 255 are rejected before any request, and an accepted t gives one PUT    *)
(* to /v1/files/<path>:create_dnp with tracks=t.                           *)
(***************************************************************************)
TrackRange == 1..255

\* the query of create-dnp for the arguments a; --name is optional
DnpQuery(a) ==
    [k \in {"tracks"} \cup (IF a.name # <<>> THEN {"diskname"} ELSE {}) |->
        IF k = "tracks" THEN <<ToString(a.tracks)>> ELSE a.name]

C14_TracksInRangeOrRejected ==
    (cmd = "create-dnp" /\ PastChecks)
        => IF args.tracks \in TrackRange
           THEN OneRequest("PUT", <<"/v1/files/">> \o args.file \o <<":create_dnp">>,
                           DnpQuery(args))
           ELSE RejectedBeforeRequest

(***************************************************************************)
(* C15: streams start and streams stop issue a request if and only if the  *)
(* stream name is video, audio or debug; any other name ends with a        *)
(* validation error before a request is built; a valid name s with ip a    *)
(* gives exactly one PUT to /v1/streams/<s>:start with query ip=a, or to   *)
(* /v1/streams/<s>:stop with no query.                                     *)
(***************************************************************************)
StreamNames == {<<"video">>, <<"audio">>, <<"debug">>}

C15_StreamNameValidated ==
    (cmd \in {"start", "stop"} /\ PastChecks)
        => IF args.stream \in StreamNames
           THEN IF cmd = "start"
                THEN OneRequest("PUT", <<"/v1/streams/">> \o args.stream \o <<":start">>,
                                [k \in {"ip"} |-> args.ip])
                ELSE OneRequest("PUT", <<"/v1/streams/">> \o args.stream \o <<":stop">>,
                                [k \in {} |-> <<>>])
           ELSE RejectedBeforeRequest

\* a stream was started, and the device has answered
C15_Witness ==
    /\ cmd = "start"
    /\ args.stream = <<"video">>
    /\ args.ip = <<"1.2.3.4">>
    /\ pc = "exited"
    /\ Len(requests) = 1
    /\ exitCode = 0

(***************************************************************************)
(* C16: drives set-mode issues a request if and only if the mode is 1541,  *)
(* 1571 or 1581; any other mode ends with a validation error and no        *)
(* request; a valid mode m gives exactly one PUT to                        *)
(* /v1/drives/<drive>:set_mode with mode=m.                                *)
(***************************************************************************)
DriveModes == {<<"1541">>, <<"1571">>, <<"1581">>}

C16_DriveModeValidated ==
    (cmd = "set-mode" /\ PastChecks)
        => IF args.mode \in DriveModes
           THEN OneRequest("PUT", <<"/v1/drives/">> \o args.drive \o <<":set_mode">>,
                           [k \in {"mode"} |-> args.mode])
           ELSE RejectedBeforeRequest

(***************************************************************************)
(* C17: for every upload command, if the local file does not exist or      *)
(* cannot be opened, the invocation ends with an error and exit code 1     *)
(* and no HTTP request is issued.                                          *)
(***************************************************************************)
\* the step that looks for the local file finds none
FindsNoFile == pc = "idle" /\ cmd' \in UploadCommands /\ fileState = "missing"

\* the step that opens the local file cannot open it
CannotOpen == cmd \in UploadCommands /\ pc = "statted" /\ pc' # pc /\ fileState # "ok"

C17_LocalFileErrorBeforeRequest ==
    [][(FindsNoFile \/ CannotOpen)
          => /\ pc' = "exited"
             /\ exitCode' = 1
             /\ requests' = <<>>
             /\ out' # <<>>
             /\ out'[Len(out')].kind \in {"error", "usage"}]_vars

\* an upload ended because its file, present at the existence check, did not open
C17_Witness ==
    /\ cmd \in UploadCommands
    /\ pc = "exited"
    /\ err = "failed to open file"
    /\ requests = <<>>
    /\ exitCode = 1

(***************************************************************************)
(* C18: in every upload the local file handle is open while the request    *)
(* is in flight and closed by the time the operation returns, on every     *)
(* outcome (success, non-2xx response, transport error, failure to build   *)
(* the URL or request); no request is issued without the handle having     *)
(* been opened first.                                                      *)
(***************************************************************************)
\* the upload's API function has returned to the command
OperationReturned == pc \in {"sizing", "exited"}

HandleScoped ==
    cmd \in UploadCommands
        => /\ pc \in {"inflight", "returned"} => fileOpen
           /\ OperationReturned => ~fileOpen

\* a step that issues a request of an upload finds the handle open
IssuedWithHandle ==
    (cmd' \in UploadCommands /\ requests' # requests) => (fileOpen /\ fileOpen')

C18_HandleOpenExactlyInFlight == []HandleScoped /\ [][IssuedWithHandle]_vars

\* an upload whose URL could not be built has returned with the handle closed
C18_Witness ==
    /\ cmd \in UploadCommands
    /\ pc = "exited"
    /\ err = "invalid URL"
    /\ fileState = "ok"
    /\ ~fileOpen

(***************************************************************************)
(* C19: every execution of a command issues at most one HTTP request; a    *)
(* transport failure, a non-2xx status or a device-reported error is       *)
(* never followed by a second request, and the failure is reported to the  *)
(* caller unchanged.                                                       *)
(***************************************************************************)
AtMostOneRequest == Len(requests) <= 1

\* the error reports printed so far
ErrorReports == SelectSeq(out, LAMBDA r : r.kind = "error")

\* the one report of the invocation is an error report with these details
ReportedAs(details) ==
    /\ exitCode = 1
    /\ Len(ErrorReports) = 1
    /\ ErrorReports[1].details = details

\* the failure the request met, as the caller is to see it
FailureSurfaced ==
    (pc = "exited" /\ wire # NoWire)
        => /\ wire.kind = "transport" => ReportedAs(<<"HTTP request failed">>)
           /\ (Parsed /\ DeviceSupplied(wire.Body) # <<>>)
                => ReportedAs(DeviceSupplied(wire.Body))
           /\ (Parsed /\ wire.StatusCode \notin Success2xx)
                => exitCode = 1 /\ Len(ErrorReports) = 1

C19_OneRequestFailureSurfaced == AtMostOneRequest /\ FailureSurfaced

(***************************************************************************)
(* C20: for each upload / non-upload pair (sidplay, modplay, load_prg,     *)
(* run_prg, run_crt, drives mount, drives load_rom, writemem) both         *)
(* variants target the same endpoint path and carry the same optional      *)
(* query parameters for the same inputs; the non-upload request has the    *)
(* device-path parameter (file, image, or data for writemem) and no body,  *)
(* the upload request has the local file as body and no file or image      *)
(* parameter.                                                              *)
(***************************************************************************)
\* the non-upload commands of the pairs, and the upload variant of each
PairedCommands == RunnerCommands \cup {"mount", "load-rom", "write-mem"}

UploadOf(c) ==
    CASE c = "sidplay" -> "sidplay-upload"
      [] c = "modplay" -> "modplay-upload"
      [] c = "load-prg" -> "load-prg-upload"
      [] c = "run-prg" -> "run-prg-upload"
      [] c = "run-crt" -> "run-crt-upload"
      [] c = "mount" -> "mount-upload"
      [] c = "load-rom" -> "load-rom-upload"
      [] c = "write-mem" -> "write-mem-file"

\* the parameter that names what is on the device
DevicePathKey(c) ==
    IF c = "mount" THEN "image" ELSE IF c = "write-mem" THEN "data" ELSE "file"

\* a query without one of its keys
Without(query, key) == [k \in DOMAIN query \ {key} |-> query[k]]

\* the requests the two variants build for the same inputs: same path, same
\* query but for the device-path parameter, a body in the upload only
SameButForBody(c, plain, upload) ==
    /\ URLParse(plain.path).path = URLParse(upload.path).path
    /\ URLParse(plain.path).rawQuery = URLParse(upload.path).rawQuery
    /\ DevicePathKey(c) \in DOMAIN plain.params
    /\ ~plain.hasBody
    /\ upload.hasBody
    /\ DOMAIN upload.params \cap {"file", "image", "data"} = {}
    /\ upload.params = Without(plain.params, DevicePathKey(c))

\* the request r on the wire is the request q as built
IsRequestOf(r, q) ==
    /\ r.path = URLParse(q.path).path
    /\ r.rawQuery = URLParse(q.path).rawQuery
    /\ r.params = q.params
    /\ r.hasBody = q.hasBody

\* the inputs of the pair: those of the running variant, and for an upload any
\* device path (or data) the other variant could be given with them
InputsOfPair(c) ==
    IF cmd = c THEN {args}
    ELSE IF c = "write-mem" THEN {[args EXCEPT !.data = d] : d \in DataArgs}
    ELSE {[args EXCEPT !.file = f] : f \in DeviceFiles}

C20_UploadDiffersOnlyInBody ==
    \A c \in PairedCommands :
        (cmd \in {c, UploadOf(c)} /\ requests # <<>>)
            => /\ IsRequestOf(requests[1], ApiCall(cmd, args))
               /\ \A given \in InputsOfPair(c) :
                    SameButForBody(c, ApiCall(c, given), ApiCall(UploadOf(c), given))

\* an upload with an optional parameter has issued its request
C20_Witness ==
    /\ cmd = "sidplay-upload"
    /\ args.song = 3
    /\ Len(requests) = 1
    /\ requests[1].hasBody
    /\ DOMAIN requests[1].params = {"songnr"}

(***************************************************************************)
(* C21: optional arguments of the request builders                         *)
(***************************************************************************)
\* the decimal form of a number, the literal form of a text
Decimal(n) == <<ToString(n)>>

\* the optional arguments of the running command: the query key, whether the
\* caller supplied a non-zero / non-empty value, and the form it is sent in
OptionalArguments ==
    (IF cmd \in {"sidplay", "sidplay-upload"}
     THEN {<<"songnr", args.song # 0, Decimal(args.song)>>} ELSE {})
    \cup (IF cmd \in {"mount", "mount-upload"}
          THEN {<<"type", args.imageType # <<>>, args.imageType>>,
                <<"mode", args.mode # <<>>, args.mode>>} ELSE {})
    \cup (IF cmd = "create-d64"
          THEN {<<"tracks", args.tracks # 0, Decimal(args.tracks)>>} ELSE {})
    \cup (IF cmd \in {"create-d64", "create-d71", "create-d81", "create-dnp"}
          THEN {<<"diskname", args.name # <<>>, args.name>>} ELSE {})
    \cup (IF cmd = "read-mem"
          THEN {<<"length", args.length # 0, Decimal(args.length)>>} ELSE {})

\* C21: in every request of a builder with optional arguments the query has
\* the optional key if and only if the caller supplied a non-zero / non-empty
\* value, and then the key's value is the decimal or literal form of it.
C21_OptionalKeySentIffSupplied ==
    requests # <<>> =>
        \A o \in OptionalArguments :
            /\ (o[1] \in DOMAIN requests[1].params) <=> o[2]
            /\ o[2] => requests[1].params[o[1]] = o[3]

(***************************************************************************)
(* C22: the action verb stays at the end of the requested path             *)
(***************************************************************************)
\* the colon-suffixed verb of each operation that has a path-like argument
VerbOf(c) ==
    CASE c \in {"mount", "mount-upload"} -> ":mount"
      [] c \in {"load-rom", "load-rom-upload"} -> ":load_rom"
      [] c = "set-mode" -> ":set_mode"
      [] c = "start" -> ":start"
      [] c = "stop" -> ":stop"
      [] c = "files-info" -> ":info"
      [] c = "create-d64" -> ":create_d64"
      [] c = "create-d71" -> ":create_d71"
      [] c = "create-d81" -> ":create_d81"
      [] c = "create-dnp" -> ":create_dnp"

PathArgumentCommands ==
    {"mount", "mount-upload", "load-rom", "load-rom-upload", "set-mode", "start", "stop",
     "files-info", "create-d64", "create-d71", "create-d81", "create-dnp"}

\* the collections under /v1/ that the path-like arguments name a member of
V1Collections == {"/v1/drives/", "/v1/streams/", "/v1/files/"}

\* C22: whatever the drive, stream name or device file path, the path of the
\* URL that is requested starts with /v1/ and ends with the operation's verb.
C22_VerbEndsThePath ==
    (cmd \in PathArgumentCommands /\ requests # <<>>) =>
        /\ requests[1].path[1] \in V1Collections
        /\ requests[1].path[Len(requests[1].path)] = VerbOf(cmd)

(***************************************************************************)
(* C23: the method of a request is fixed by the kind of its operation      *)
(***************************************************************************)
\* operations that read from the device
ReadOperations == {"drives-list", "files-info", "read-mem", "debug-reg", "info", "about"}

\* operations that send a local file
UploadOperations ==
    {"write-mem-file", "sidplay-upload", "modplay-upload", "load-prg-upload",
     "run-prg-upload", "run-crt-upload", "mount-upload", "load-rom-upload"}

\* C23: every request of a read operation is a GET; every request of an upload
\* is a POST with Content-Type application/octet-stream and the file as its
\* body; every request of another operation is a PUT without a body, its
\* parameters in the query.
C23_MethodFixedByOperationKind ==
    \A i \in DOMAIN requests :
        LET r == requests[i]
        IN  CASE cmd \in ReadOperations -> r.method = "GET" /\ ~r.hasBody
              [] cmd \in UploadOperations ->
                    /\ r.method = "POST"
                    /\ r.contentType = "application/octet-stream"
                    /\ r.hasBody
                    /\ fileOpen \/ pc \in {"sizing", "exited"}
              [] OTHER -> r.method = "PUT" /\ ~r.hasBody /\ r.contentType = ""

\* an upload with query parameters whose request has left, the open file as
\* its body
C23_Witness ==
    /\ cmd = "mount-upload"
    /\ pc = "inflight"
    /\ fileOpen
    /\ requests[1].method = "POST"
    /\ requests[1].params # EmptyMap

(***************************************************************************)
(* C24: precedence of flag, environment, config file and default           *)
(***************************************************************************)
DecimalDigits == {"0", "1", "2", "3", "4", "5", "6", "7", "8", "9"}

IsNumber(text) == text # <<>> /\ \A i \in DOMAIN text : text[i] \in DecimalDigits

\* the number a decimal text stands for, -1 when it stands for none
RECURSIVE NumberOf(_)
NumberOf(text) ==
    IF ~IsNumber(text) THEN -1
    ELSE IF Len(text) = 1
    THEN CHOOSE n \in 0..9 : ToString(n) = text[1]
    ELSE 10 * NumberOf(SubSeq(text, 1, Len(text) - 1)) + NumberOf(<<text[Len(text)]>>)

\* the first of the layers that has a value, from the highest down
FirstOf(layers, default) ==
    IF \E i \in DOMAIN layers : layers[i] # <<>>
    THEN layers[CHOOSE i \in DOMAIN layers :
                    layers[i] # <<>> /\ \A j \in 1..(i - 1) : layers[j] = <<>>][1]
    ELSE default

\* an environment variable as a layer: its value when it is set
EnvSet(env) == env

\* an environment variable as a layer: its value when it is set and not empty
EnvSetNonEmpty(env) == IF env = <<<<>>>> THEN <<>> ELSE env

\* the port an environment layer stands for
EnvPort(env) == IF env = <<>> THEN <<>> ELSE <<NumberOf(env[1])>>

ClientBuilt == cfgOut.step = "client"

CodeOf(c) ==
    CASE c = " " -> 32
      [] c = "." -> 46
      [] c = ":" -> 58
      [] c = "|" -> 124
      [] c = "\n" -> 10
      [] c \in DecimalDigits -> 48 + (CHOOSE n \in 0..9 : ToString(n) = c)
      [] c = "A" -> 65
      [] c = "B" -> 66
      [] c = "C" -> 67
      [] c = "D" -> 68
      [] c = "E" -> 69
      [] c = "F" -> 70

TextOf(chars) == [i \in DOMAIN chars |-> CodeOf(chars[i])]

Spaces(n) == [i \in 1..n |-> CodeOf(" ")]

UpperHexDigits ==
    <<"0", "1", "2", "3", "4", "5", "6", "7", "8", "9", "A", "B", "C", "D", "E", "F">>

\* the four upper-case hex digits of a 16-bit value
FourHexDigits(v) ==
    <<UpperHexDigits[((v \div 4096) % 16) + 1], UpperHexDigits[((v \div 256) % 16) + 1],
      UpperHexDigits[((v \div 16) % 16) + 1], UpperHexDigits[(v % 16) + 1]>>

Dumped == dumpOut.step = "formatted"

\* the rows of the dump: the texts that the newlines end
RowEnds == {i \in DOMAIN dumpOut.text : dumpOut.text[i] = CodeOf("\n")}
RowCount == Cardinality(RowEnds)
RowEnd(k) == CHOOSE p \in RowEnds : Cardinality({q \in RowEnds : q < p}) = k - 1
DumpRow(k) ==
    SubSeq(dumpOut.text, IF k = 1 THEN 1 ELSE RowEnd(k - 1) + 1, RowEnd(k) - 1)

\* how many bytes of the data fall into row k
BytesInRow(k) ==
    IF Len(dumpIn.data) - 16 * (k - 1) < 16 THEN Len(dumpIn.data) - 16 * (k - 1) ELSE 16

(***************************************************************************)
(* C25: the address field of a row                                         *)
(***************************************************************************)
\* C25: every row starts with the four upper-case hex digits of the 16-bit
\* value of start + 16 * rowIndex, followed by ": ", also when the sum is
\* past 0xFFFF.
C25_AddressFieldIsFourDigits ==
    Dumped =>
        \A k \in 1..RowCount :
            /\ Len(DumpRow(k)) >= 6
            /\ SubSeq(DumpRow(k), 1, 6) =
                   TextOf(FourHexDigits((dumpIn.start + 16 * (k - 1)) % 65536)
                              \o <<":", " ">>)

(***************************************************************************)
(* C26: the hex area and the offset of the ASCII column                    *)
(***************************************************************************)
\* where the " |" before the ASCII column starts in row k, counted from the
\* row's end: before the closing bar and one character per byte of the row
DelimiterOffset(k) == Len(DumpRow(k)) - 1 - BytesInRow(k) - 2

\* the hex area of row k: what stands between the ": " and the " |"
HexAreaWidth(k) ==
    LET row == DumpRow(k)
        colon == CHOOSE i \in DOMAIN row :
                     row[i] = CodeOf(":") /\ \A j \in 1..(i - 1) : row[j] # CodeOf(":")
    IN  DelimiterOffset(k) - (colon + 1)

\* C26: the hex area is 16 three-character slots and one extra space wide in
\* every row, the " |" starts at the same offset in every row, and the bytes
\* 0x41 0x42 at 0x0400 give the row "0400: 41 42 ", padding, "|AB|", newline.
C26_AsciiColumnAligned ==
    Dumped =>
        /\ \A k \in 1..RowCount :
            /\ HexAreaWidth(k) = 16 * 3 + 1
            /\ SubSeq(DumpRow(k), DelimiterOffset(k) + 1, DelimiterOffset(k) + 2)
                   = TextOf(<<" ", "|">>)
            /\ \A l \in 1..RowCount : DelimiterOffset(k) = DelimiterOffset(l)
        /\ (dumpIn.data = <<65, 66>> /\ dumpIn.start = 1024) =>
                dumpOut.text =
                    TextOf(<<"0", "4", "0", "0", ":", " ", "4", "1", " ", "4", "2", " ">>)
                        \o Spaces(44) \o TextOf(<<"|", "A", "B", "|", "\n">>)

(***************************************************************************)
(* C27: the ASCII column                                                   *)
(***************************************************************************)
\* the ASCII column of row k: what stands between the " |" that follows the hex
\* area and the bar that ends the row
AsciiColumn(k) ==
    LET row == DumpRow(k)
        colon == CHOOSE i \in DOMAIN row :
                     row[i] = CodeOf(":") /\ \A j \in 1..(i - 1) : row[j] # CodeOf(":")
    IN  SubSeq(row, colon + 1 + (16 * 3 + 1) + 2 + 1, Len(row) - 1)

\* how a byte is shown in the column
ShownAs(b) == IF b \in 32..126 THEN b ELSE CodeOf(".")

RECURSIVE ColumnChars(_)
ColumnChars(k) == IF k = 0 THEN 0 ELSE ColumnChars(k - 1) + Len(AsciiColumn(k))

\* C27: the dump has ceil(len / 16) rows; the ASCII column of each has one
\* character per byte of the row, the byte itself when it is 0x20..0x7E and
\* "." otherwise; over all rows the columns have len(data) characters.
C27_AsciiColumnShowsEveryByte ==
    Dumped =>
        /\ RowCount = (Len(dumpIn.data) + 15) \div 16
        /\ dumpOut.text # <<>> => dumpOut.text[Len(dumpOut.text)] = CodeOf("\n")
        /\ \A k \in 1..RowCount :
            /\ DumpRow(k)[Len(DumpRow(k))] = CodeOf("|")
            /\ Len(AsciiColumn(k)) = BytesInRow(k)
            /\ \A j \in 1..Len(AsciiColumn(k)) :
                   AsciiColumn(k)[j] = ShownAs(dumpIn.data[16 * (k - 1) + j])
        /\ ColumnChars(RowCount) = Len(dumpIn.data)

\* a dump of three rows whose bytes run from "|" over 0x7E and 0x7F into the
\* bytes above, the last row holding one byte
C27_Witness ==
    /\ Dumped
    /\ Len(dumpIn.data) = 33
    /\ dumpIn.data[1] = 124
    /\ RowCount = 3
    /\ AsciiColumn(1)[3] = 126
    /\ AsciiColumn(1)[4] = 46
    /\ Len(AsciiColumn(3)) = 1

(***************************************************************************)
(* C28: the text of the synthesized HTTP-status string                     *)
(***************************************************************************)
\* "HTTP <code>: <status text>", the status text being the reason phrase alone
StatusString(code) == <<"HTTP ", ToString(code), ": ", ReasonPhrase(code)>>

\* how often the status code stands in a text
CodeOccurrences(text, code) ==
    Cardinality({i \in DOMAIN text : text[i] = ToString(code)})

\* C28: a synthesized HTTP-status string is "HTTP <code>: <reason phrase>",
\* with the code in it exactly once ("HTTP 404: Not Found").
C28_StatusStringNamesCodeOnce ==
    (Parsed /\ wire.StatusCode \notin Success2xx /\ DeviceSupplied(wire.Body) = <<>>
            /\ resp.Errors # <<>>)
        => /\ resp.Errors[1] = StatusString(wire.StatusCode)
           /\ CodeOccurrences(resp.Errors[1], wire.StatusCode) = 1

(***************************************************************************)
(* C29: the order of a handler's checks and reports                        *)
(***************************************************************************)
\* reports of a success: a success message, or the data that was asked for
SuccessReports == {i \in DOMAIN out : out[i].kind \in {"success", "data"}}

\* reports of a failure
FailureReports == {i \in DOMAIN out : out[i].kind \in {"error", "usage"}}

\* messages of the checks a handler makes on its own arguments and files
LocalCheckMessages ==
    {"Invalid mode", "Invalid stream type", "Missing required flag", "Invalid tracks value",
     "File not found"}

C30_WriteMemFileNeverCrashes ==
    cmd = "write-mem-file" =>
        /\ "panic" \notin ReportedKinds
        /\ pc = "exited" =>
              /\ exitCode \in {0, 1}
              /\ out # <<>>
              /\ out[Len(out)].kind \in {"error", "usage", "success"}

====
